---- MODULE Spec2Model ----
(***************************************************************************)
(* Model of colorthief.py: the MMCQ (modified median cut) quantizer, its   *)
(* VBox regions, the lazily sorted PQueue and the CMap colour map.         *)
(*                                                                         *)
(* Numbers the Python code keeps as floats are kept exact here:            *)
(*   - iter_'s target (0.75 * max_color in the first phase) is kept as the *)
(*     numerator target_num of a fraction over FRACT_DEN, so that          *)
(*     `n_color >= target` is `FRACT_DEN * n_color >= target_num`;         *)
(*   - `partialsum[i] > total / 2` is `2 * partialsum[i] > total`;         *)
(*   - int(x) truncates toward zero (IntOfHalves);                         *)
(*   - a fraction count / float(total) is the pair <<count, total>>.       *)
(* An Optional value is <<>> for None and <<x>> for the object x.          *)
(***************************************************************************)
EXTENDS Integers, Sequences, FiniteSets

VARIABLES pixels, max_color, histo, pq, pq2, cmap, n_color, n_iter, target_num,
          vbox, vbox1, vbox2, pc, error, returned, result

vars == <<pixels, max_color, histo, pq, pq2, cmap, n_color, n_iter, target_num,
          vbox, vbox1, vbox2, pc, error, returned, result>>

(***************************************************************************)
(* Bounds of the explored inputs.                                          *)
(***************************************************************************)
\* every candidate pixel occurs 0..MaxMult times in the input list
MaxMult == 2

\* the pixels an input list is drawn from (8-bit channels)
CandidatePixels ==
    << <<255, 0, 0>>, <<250, 3, 1>>, <<0, 0, 0>>, <<0, 130, 255>>, <<200, 60, 100>>,
       <<90, 255, 40>> >>

\* the max_color arguments tried (1 and 257 are rejected by quantize)
MaxColorArgs == {1, 2, 3, 5, 8, 257}

\* the colours looked up in the finished colour map
LookupColors == { <<255, 0, 0>>, <<0, 0, 0>>, <<120, 120, 120>> }

(***************************************************************************)
(* Program constants.                                                      *)
(***************************************************************************)
SIGBITS == 5
RSHIFT == 8 - SIGBITS
MAX_ITERATION == 1000
\* FRACT_BY_POPULATIONS = 0.75 = FRACT_NUM / FRACT_DEN
FRACT_NUM == 3
FRACT_DEN == 4
\* initial value of rmin, gmin, bmin in vbox_from_pixels
MIN_START == 1000000

(***************************************************************************)
(* Python helpers.                                                         *)
(***************************************************************************)
None == <<>>
Some(x) == <<x>>
Truthy(o) == o # None

Min2(a, b) == IF a <= b THEN a ELSE b
Max2(a, b) == IF a >= b THEN a ELSE b

\* int(h / 2) for an integer h: truncation toward zero
IntOfHalves(h) == IF h >= 0 THEN h \div 2 ELSE -((-h) \div 2)

\* pixel[c] >> MMCQ.RSHIFT
Shift(v) == v \div (2 ^ RSHIFT)

get_color_index(r, g, b) == r * (2 ^ (2 * SIGBITS)) + g * (2 ^ SIGBITS) + b

\* the reduced coordinates packed in a histogram key
IndexR(idx) == idx \div (2 ^ (2 * SIGBITS))
IndexG(idx) == (idx \div (2 ^ SIGBITS)) % (2 ^ SIGBITS)
IndexB(idx) == idx % (2 ^ SIGBITS)

PixelIndex(pixel) == get_color_index(Shift(pixel[1]), Shift(pixel[2]), Shift(pixel[3]))

get_histo(pxs) ==
    [idx \in {PixelIndex(pxs[n]) : n \in 1..Len(pxs)} |->
        Cardinality({n \in 1..Len(pxs) : PixelIndex(pxs[n]) = idx})]

RECURSIVE SumOver(_, _)
SumOver(h, S) ==
    IF S = {} THEN 0
    ELSE LET x == CHOOSE y \in S : TRUE IN h[x] + SumOver(h, S \ {x})

(***************************************************************************)
(* VBox                                                                    *)
(***************************************************************************)
VBox(r1, r2, g1, g2, b1, b2) ==
    [r1 |-> r1, r2 |-> r2, g1 |-> g1, g2 |-> g2, b1 |-> b1, b2 |-> b2]

RECURSIVE MinOver(_, _, _)
MinOver(pxs, c, acc) ==
    IF pxs = <<>> THEN acc
    ELSE MinOver(Tail(pxs), c, Min2(Shift(Head(pxs)[c]), acc))

RECURSIVE MaxOver(_, _, _)
MaxOver(pxs, c, acc) ==
    IF pxs = <<>> THEN acc
    ELSE MaxOver(Tail(pxs), c, Max2(Shift(Head(pxs)[c]), acc))

vbox_from_pixels(pxs) ==
    VBox(MinOver(pxs, 1, MIN_START), MaxOver(pxs, 1, 0),
         MinOver(pxs, 2, MIN_START), MaxOver(pxs, 2, 0),
         MinOver(pxs, 3, MIN_START), MaxOver(pxs, 3, 0))

\* The histogram keys the triple loop over the box's ranges visits with a
\* non-zero entry; every other visited cell adds histo.get(index, 0) = 0.
CellsIn(h, b) ==
    {idx \in DOMAIN h :
        /\ IndexR(idx) \in b.r1..b.r2
        /\ IndexG(idx) \in b.g1..b.g2
        /\ IndexB(idx) \in b.b1..b.b2}

VBoxCount(h, b) == SumOver(h, CellsIn(h, b))

VBoxVolume(b) == ((b.r2 - b.r1) + 1) * ((b.g2 - b.g1) + 1) * ((b.b2 - b.b1) + 1)

VBoxCopy(b) == VBox(b.r1, b.r2, b.g1, b.g2, b.b1, b.b2)

VBoxContains(b, pixel) ==
    /\ Shift(pixel[1]) >= b.r1
    /\ Shift(pixel[1]) <= b.r2
    /\ Shift(pixel[2]) >= b.g1
    /\ Shift(pixel[2]) <= b.g2
    /\ Shift(pixel[3]) >= b.b1
    /\ Shift(pixel[3]) <= b.b2

RECURSIVE WeightedSum(_, _, _)
\* sum of hval * (coordinate + 0.5) * mult over the cells of S, for channel c
WeightedSum(h, S, c) ==
    IF S = {} THEN 0
    ELSE LET x == CHOOSE y \in S : TRUE
             co == IF c = 1 THEN IndexR(x) ELSE IF c = 2 THEN IndexG(x) ELSE IndexB(x)
             mult == 2 ^ (8 - SIGBITS)
         IN (h[x] * (2 * co + 1) * mult) \div 2 + WeightedSum(h, S \ {x}, c)

\* the average of a box that holds no pixel, per channel
AvgEmpty(lo, hi) == IntOfHalves((2 ^ (8 - SIGBITS)) * (lo + hi + 1))

\* the average over the cells S of the box, which hold ntot pixels
AvgOfCells(h, b, S, ntot) ==
    IF ntot # 0
    THEN << WeightedSum(h, S, 1) \div ntot,
            WeightedSum(h, S, 2) \div ntot,
            WeightedSum(h, S, 3) \div ntot >>
    ELSE << AvgEmpty(b.r1, b.r2), AvgEmpty(b.g1, b.g2), AvgEmpty(b.b1, b.b2) >>

VBoxAvg(h, b) == AvgOfCells(h, b, CellsIn(h, b), VBoxCount(h, b))

(***************************************************************************)
(* PQueue                                                                  *)
(***************************************************************************)
\* the three sort_key lambdas of the program, by name
SortKey(h, key, x) ==
    IF key = "count" THEN VBoxCount(h, x)
    ELSE IF key = "count_volume" THEN VBoxCount(h, x) * VBoxVolume(x)
    ELSE VBoxCount(h, x.vbox) * VBoxVolume(x.vbox)

PQueueNew(key) == [sort_key |-> key, contents |-> <<>>, sorted |-> FALSE]

RECURSIVE WithKeys(_, _, _)
\* every object of the list paired with its sort key
WithKeys(h, key, contents) ==
    IF contents = <<>> THEN <<>>
    ELSE << <<SortKey(h, key, Head(contents)), Head(contents)>> >>
            \o WithKeys(h, key, Tail(contents))

RECURSIVE InsertKeyed(_, _)
\* e put into the ascending list s, behind every entry whose key is not larger
InsertKeyed(s, e) ==
    IF s = <<>> THEN <<e>>
    ELSE IF s[Len(s)][1] <= e[1] THEN Append(s, e)
    ELSE Append(InsertKeyed(SubSeq(s, 1, Len(s) - 1), e), s[Len(s)])

RECURSIVE SortKeyed(_)
SortKeyed(s) ==
    IF s = <<>> THEN <<>>
    ELSE InsertKeyed(SortKeyed(SubSeq(s, 1, Len(s) - 1)), s[Len(s)])

RECURSIVE WithoutKeys(_)
WithoutKeys(s) == IF s = <<>> THEN <<>> ELSE <<Head(s)[2]>> \o WithoutKeys(Tail(s))

\* a sort that leaves the list as it is
SortContentsUnsorted(h, key, contents) == contents

\* list.sort(key = sort_key): stable, ascending
SortContents(h, key, contents) == WithoutKeys(SortKeyed(WithKeys(h, key, contents)))

PQueueSort(h, q) ==
    [q EXCEPT !.contents = SortContents(h, q.sort_key, q.contents), !.sorted = TRUE]

PQueuePush(q, o) == [q EXCEPT !.contents = Append(q.contents, o), !.sorted = FALSE]

\* the queue as pop and peek leave it before they index it
PQueueSorted(h, q) == IF q.sorted THEN q ELSE PQueueSort(h, q)

\* pop on a queue that is sorted: the object returned and the queue left
PopLast(s) ==
    << s.contents[Len(s.contents)],
       [s EXCEPT !.contents = SubSeq(s.contents, 1, Len(s.contents) - 1)] >>

\* pop: <<the object returned, the queue left>>
PQueuePop(h, q) == PopLast(PQueueSorted(h, q))

PQueueSize(q) == Len(q.contents)

(***************************************************************************)
(* MMCQ.median_cut_apply                                                   *)
(***************************************************************************)
\* the axis to cut: the first of r, g, b whose width is the largest
DoCutColor(b) ==
    LET rw == b.r2 - b.r1 + 1
        gw == b.g2 - b.g1 + 1
        bw == b.b2 - b.b1 + 1
        maxw == Max2(rw, Max2(gw, bw))
    IN IF maxw = rw THEN "r" ELSE IF maxw = gw THEN "g" ELSE "b"

\* getattr(vbox, do_cut_color + '1'), getattr(vbox, do_cut_color + '2')
Dim1(b, axis) == IF axis = "r" THEN b.r1 ELSE IF axis = "g" THEN b.g1 ELSE b.b1
Dim2(b, axis) == IF axis = "r" THEN b.r2 ELSE IF axis = "g" THEN b.g2 ELSE b.b2

\* setattr(vbox, do_cut_color + '1', v), setattr(vbox, do_cut_color + '2', v)
SetDim1(b, axis, v) ==
    IF axis = "r" THEN [b EXCEPT !.r1 = v]
    ELSE IF axis = "g" THEN [b EXCEPT !.g1 = v] ELSE [b EXCEPT !.b1 = v]
SetDim2(b, axis, v) ==
    IF axis = "r" THEN [b EXCEPT !.r2 = v]
    ELSE IF axis = "g" THEN [b EXCEPT !.g2 = v] ELSE [b EXCEPT !.b2 = v]

IndexOn(idx, axis) ==
    IF axis = "r" THEN IndexR(idx) ELSE IF axis = "g" THEN IndexG(idx) ELSE IndexB(idx)

\* partialsum: for every slice i of the cut axis, the pixels of the box in the
\* slices dim1..i
PartialSum(h, b, axis) ==
    [i \in Dim1(b, axis)..Dim2(b, axis) |->
        SumOver(h, {idx \in CellsIn(h, b) : IndexOn(idx, axis) <= i})]

\* partialsum.get(d, False), as a truth value
PartialAt(ps, d) == IF d \in DOMAIN ps THEN ps[d] # 0 ELSE FALSE

\* lookaheadsum.get(d), as a truth value (None and 0 are both false)
LookaheadAt(ps, total, d) == IF d \in DOMAIN ps THEN total - ps[d] # 0 ELSE FALSE

\* the first cut position tried, from the slice i that passes half the total
CutStart(dim1_val, dim2_val, i) ==
    LET left == i - dim1_val
        right == dim2_val - i
    IN IF left <= right
       THEN Min2(dim2_val - 1, IntOfHalves(2 * i + right))
       ELSE Max2(dim1_val, IntOfHalves(2 * (i - 1) - left))

RECURSIVE SkipForward(_, _)
\* while not partialsum.get(d2, False): d2 += 1
SkipForward(ps, d2) == IF PartialAt(ps, d2) THEN d2 ELSE SkipForward(ps, d2 + 1)

RECURSIVE StepBack(_, _, _)
\* while not count2 and partialsum.get(d2-1, False): d2 -= 1; count2 = lookaheadsum.get(d2)
StepBack(ps, total, d2) ==
    IF ~LookaheadAt(ps, total, d2) /\ PartialAt(ps, d2 - 1)
    THEN StepBack(ps, total, d2 - 1)
    ELSE d2

\* vbox1 of a cut at d2: the copy with its upper bound on the axis set to d2
CutLow(b, axis, d2) == SetDim2(VBoxCopy(b), axis, d2)

\* a cut that starts vbox2 two slices above vbox1's upper bound
CutHighGap(b, axis, d2) == SetDim1(VBoxCopy(b), axis, Dim2(CutLow(b, axis, d2), axis) + 2)

\* a cut that starts vbox2 at vbox1's upper bound
CutHighOverlap(b, axis, d2) == SetDim1(VBoxCopy(b), axis, Dim2(CutLow(b, axis, d2), axis))

\* vbox2 of a cut at d2: the copy with its lower bound set to vbox1's upper + 1
CutHigh(b, axis, d2) == SetDim1(VBoxCopy(b), axis, Dim2(CutLow(b, axis, d2), axis) + 1)

\* the first slice whose partial sum passes half the total, or None
FirstOver(ps, total, i, dim2_val) ==
    LET over == {x \in i..dim2_val : 2 * ps[x] > total}
    IN IF over = {} THEN None ELSE Some(CHOOSE x \in over : \A y \in over : x <= y)

\* the two boxes of the cut at d2
CutPair(b, axis, d2) == <<Some(CutLow(b, axis, d2)), Some(CutHigh(b, axis, d2))>>

\* the body of the `for i` loop at the slice found, or the final return
CutFrom(b, axis, ps, total, dim1_val, dim2_val, found) ==
    IF found = None THEN <<None, None>>
    ELSE CutPair(b, axis,
                 StepBack(ps, total,
                          SkipForward(ps, CutStart(dim1_val, dim2_val, found[1]))))

\* the cut, given the partial sums and the total
CutWithSums(b, axis, ps, total, dim1_val, dim2_val) ==
    CutFrom(b, axis, ps, total, dim1_val, dim2_val,
            FirstOver(ps, total, dim1_val, dim2_val))

\* total is the partial sum of the last slice
CutWithPartial(b, axis, ps, dim1_val, dim2_val) ==
    CutWithSums(b, axis, ps, ps[dim2_val], dim1_val, dim2_val)

CutAlong(h, b, axis) ==
    CutWithPartial(b, axis, PartialSum(h, b, axis), Dim1(b, axis), Dim2(b, axis))

\* median_cut_apply on a box that holds count pixels
MedianCutCounted(h, b, count) ==
    IF count = 0 THEN <<None, None>>
    ELSE IF count = 1 THEN <<Some(VBoxCopy(b)), None>>
    ELSE CutAlong(h, b, DoCutColor(b))

\* the pair (vbox1, vbox2), either of which may be None
median_cut_apply(h, b) == MedianCutCounted(h, b, VBoxCount(h, b))

(***************************************************************************)
(* CMap                                                                    *)
(***************************************************************************)
CMapNew == PQueueNew("cmap")

CMapPush(h, cm, b) == PQueuePush(cm, [vbox |-> b, color |-> VBoxAvg(h, b)])

\* self.vboxes.map(lambda x: x['color']): the list in its stored order
CMapPalette(cm) == [n \in 1..Len(cm.contents) |-> cm.contents[n].color]

\* self.vboxes.map(lambda x: x['vbox'].count)
CMapCounts(h, cm) == [n \in 1..Len(cm.contents) |-> VBoxCount(h, cm.contents[n].vbox)]

\* every colour with its fraction count / float(total), kept as <<count, total>>
DistributionOf(cm, counts, total) ==
    [n \in 1..Len(cm.contents) |-> <<cm.contents[n].color, <<counts[n], total>> >>]

DistributionWith(cm, counts) == DistributionOf(cm, counts, SumOver(counts, DOMAIN counts))

CMapPaletteDistribution(h, cm) == DistributionWith(cm, CMapCounts(h, cm))

\* the squared distance; d2 < d1 on the square roots is d2 < d1 on the squares
Dist2(color, c) ==
    (color[1] - c[1]) * (color[1] - c[1]) + (color[2] - c[2]) * (color[2] - c[2])
        + (color[3] - c[3]) * (color[3] - c[3])

\* cm is the colour map after peek has sorted it
CMapNearest(cm, color) ==
    LET n == Len(cm.contents)
        best == CHOOSE i \in 1..n :
                  /\ \A j \in 1..n :
                        Dist2(color, cm.contents[i].color) <= Dist2(color, cm.contents[j].color)
                  /\ \A j \in 1..(i - 1) :
                        Dist2(color, cm.contents[j].color) > Dist2(color, cm.contents[i].color)
    IN cm.contents[best].color

\* cm is the colour map after peek has sorted it
CMapMap(cm, color) ==
    LET n == Len(cm.contents)
        hits == {i \in 1..n : VBoxContains(cm.contents[i].vbox, color)}
    IN IF hits # {}
       THEN cm.contents[CHOOSE i \in hits : \A j \in hits : i <= j].color
       ELSE CMapNearest(cm, color)

(***************************************************************************)
(* MMCQ.quantize, one action per step of its control flow                  *)
(***************************************************************************)
RECURSIVE InputList(_, _)
\* the input list in which CandidatePixels[n] occurs mult[n] times
InputList(mult, n) ==
    IF n = 0 THEN <<>>
    ELSE InputList(mult, n - 1) \o [m \in 1..mult[n] |-> CandidatePixels[n]]

Init ==
    /\ \E mult \in [1..Len(CandidatePixels) -> 0..MaxMult] :
          pixels = InputList(mult, Len(CandidatePixels))
    /\ max_color \in MaxColorArgs
    /\ histo = <<>>
    /\ pq = PQueueNew("count")
    /\ pq2 = PQueueNew("count_volume")
    /\ cmap = CMapNew
    /\ n_color = 0
    /\ n_iter = 0
    /\ target_num = 0
    /\ vbox = None
    /\ vbox1 = None
    /\ vbox2 = None
    /\ pc = "start"
    /\ error = ""
    /\ returned = None
    /\ result = None

\* quantize up to the first call of iter_: the argument checks, the histogram,
\* the first vbox, and iter_'s own initialisation
Quantize ==
    /\ pc = "start"
    /\ IF pixels = <<>>
       THEN /\ pc' = "raised"
            /\ error' = "Empty pixels when quantize."
            /\ UNCHANGED <<histo, pq, n_color, target_num>>
       ELSE IF max_color < 2 \/ max_color > 256
       THEN /\ pc' = "raised"
            /\ error' = "Wrong number of max colors when quantize."
            /\ UNCHANGED <<histo, pq, n_color, target_num>>
       ELSE /\ histo' = get_histo(pixels)
            /\ pq' = PQueuePush(pq, vbox_from_pixels(pixels))
            /\ n_color' = 1
            /\ target_num' = FRACT_NUM * max_color
            /\ pc' = "phase1"
            /\ UNCHANGED error
    /\ UNCHANGED <<pixels, max_color, pq2, cmap, n_iter, vbox, vbox1, vbox2,
                   returned, result>>

\* what a pass of iter_'s loop leaves: the queue, the locals, and whether
\* iter_ goes on ("loop"), is over ("return") or raises ("raise")
Pass(lh, nc, ni, b, b1, b2, next) ==
    [lh |-> lh, n_color |-> nc, n_iter |-> ni, vbox |-> b, vbox1 |-> b1,
     vbox2 |-> b2, next |-> next]

\* n_iter += 1 and the test of the while loop
Again(ni) == IF ni + 1 < MAX_ITERATION THEN "loop" ELSE "return"

\* the pass after both pushes: the tests on n_color and n_iter
IterPushed(lh, nc, ni, t4, b, cut) ==
    IF FRACT_DEN * nc >= t4 \/ ni > MAX_ITERATION
    THEN Pass(lh, nc, ni, Some(b), cut[1], cut[2], "return")
    ELSE Pass(lh, nc, ni + 1, Some(b), cut[1], cut[2], Again(ni))

\* the pass after the cut: the raise, or the pushes of vbox1 and vbox2
IterCut(rest, nc, ni, t4, b, cut) ==
    IF ~Truthy(cut[1])
    THEN Pass(rest, nc, ni, Some(b), None, None, "raise")
    ELSE IF Truthy(cut[2])
    THEN IterPushed(PQueuePush(PQueuePush(rest, cut[1][1]), cut[2][1]), nc + 1, ni, t4,
                    b, cut)
    ELSE IterPushed(PQueuePush(rest, cut[1][1]), nc, ni, t4, b, cut)

\* the pass after the pop: an empty box is put back, any other is cut
IterPopped(h, pop, nc, ni, t4, count) ==
    IF count = 0
    THEN Pass(PQueuePush(pop[2], pop[1]), nc, ni + 1, Some(pop[1]), None, None, Again(ni))
    ELSE IterCut(pop[2], nc, ni, t4, pop[1], median_cut_apply(h, pop[1]))

IterCounted(h, pop, nc, ni, t4) == IterPopped(h, pop, nc, ni, t4, VBoxCount(h, pop[1]))

\* one pass through the body of iter_'s while loop on the queue lh
IterPass(h, lh, nc, ni, t4) == IterCounted(h, PQueuePop(h, lh), nc, ni, t4)

\* the assignments of a pass to iter_'s locals and to the control state
IterApply(p, again, after) ==
    /\ n_color' = p.n_color
    /\ n_iter' = p.n_iter
    /\ vbox' = p.vbox
    /\ vbox1' = p.vbox1
    /\ vbox2' = p.vbox2
    /\ pc' = IF p.next = "loop" THEN again ELSE IF p.next = "return" THEN after ELSE "raised"
    /\ error' = IF p.next = "raise" THEN "vbox1 not defined; shouldn't happen!" ELSE error

\* iter_(pq, FRACT_BY_POPULATIONS * max_color)
Phase1Iter ==
    /\ pc = "phase1"
    /\ \E p \in {IterPass(histo, pq, n_color, n_iter, target_num)} :
          pq' = p.lh /\ IterApply(p, "phase1", "transfer")
    /\ UNCHANGED <<pixels, max_color, histo, pq2, cmap, target_num, returned, result>>

RECURSIVE MoveAll(_, _, _)
MovePopped(h, pop, to) == MoveAll(h, pop[2], PQueuePush(to, pop[1]))

\* while pq.size(): pq2.push(pq.pop())
MoveAll(h, from, to) ==
    IF PQueueSize(from) = 0 THEN <<from, to>> ELSE MovePopped(h, PQueuePop(h, from), to)

\* the refill of pq2 from pq, and the initialisation of the second iter_
Transfer ==
    /\ pc = "transfer"
    /\ \E m \in {MoveAll(histo, pq, pq2)} :
          /\ pq' = m[1]
          /\ pq2' = m[2]
          /\ target_num' = FRACT_DEN * (max_color - PQueueSize(m[2]))
    /\ n_color' = 1
    /\ n_iter' = 0
    /\ pc' = "phase2"
    /\ UNCHANGED <<pixels, max_color, histo, cmap, vbox, vbox1, vbox2, error,
                   returned, result>>

\* iter_(pq2, max_color - pq2.size())
Phase2Iter ==
    /\ pc = "phase2"
    /\ \E p \in {IterPass(histo, pq2, n_color, n_iter, target_num)} :
          pq2' = p.lh /\ IterApply(p, "phase2", "drain")
    /\ UNCHANGED <<pixels, max_color, histo, pq, cmap, target_num, returned, result>>

RECURSIVE DrainAll(_, _, _)
DrainPopped(h, pop, cm) == DrainAll(h, pop[2], CMapPush(h, cm, pop[1]))

\* while pq2.size(): cmap.push(pq2.pop())
DrainAll(h, from, cm) ==
    IF PQueueSize(from) = 0 THEN <<from, cm>> ELSE DrainPopped(h, PQueuePop(h, from), cm)

\* what get_palette reads from the colour map for its caller
Returned(h, cm) ==
    [palette |-> CMapPalette(cm), distribution |-> CMapPaletteDistribution(h, cm)]

\* the colour map is filled and returned to get_palette
Drain ==
    /\ pc = "drain"
    /\ \E m \in {DrainAll(histo, pq2, cmap)} :
          /\ pq2' = m[1]
          /\ cmap' = m[2]
          /\ returned' = Some(Returned(histo, m[2]))
    /\ pc' = "done"
    /\ UNCHANGED <<pixels, max_color, histo, pq, n_color, n_iter, target_num,
                   vbox, vbox1, vbox2, error, result>>

\* cmap.map(color) on the returned colour map; peek sorts the map first
Map ==
    /\ pc = "done"
    /\ \E color \in LookupColors, sorted \in {PQueueSorted(histo, cmap)} :
          /\ cmap' = sorted
          /\ result' = Some(CMapMap(sorted, color))
    /\ UNCHANGED <<pixels, max_color, histo, pq, pq2, n_color, n_iter, target_num,
                   vbox, vbox1, vbox2, pc, error, returned>>

\* cmap.nearest(color) on the returned colour map; peek sorts the map first
Nearest ==
    /\ pc = "done"
    /\ \E color \in LookupColors, sorted \in {PQueueSorted(histo, cmap)} :
          /\ cmap' = sorted
          /\ result' = Some(CMapNearest(sorted, color))
    /\ UNCHANGED <<pixels, max_color, histo, pq, pq2, n_color, n_iter, target_num,
                   vbox, vbox1, vbox2, pc, error, returned>>

Next == Quantize \/ Phase1Iter \/ Transfer \/ Phase2Iter \/ Drain \/ Map \/ Nearest

Spec == Init /\ [][Next]_vars

(***************************************************************************)
(* Properties                                                              *)
(***************************************************************************)
RECURSIVE CountsOf(_, _)
\* the counts of the boxes of a list, added up
CountsOf(h, boxes) ==
    IF boxes = <<>> THEN 0 ELSE VBoxCount(h, Head(boxes)) + CountsOf(h, Tail(boxes))

\* the boxes the colour map retains, in stored order
Retained == [n \in 1..Len(cmap.contents) |-> cmap.contents[n].vbox]

Axes == {"r", "g", "b"}
Slices(b, axis) == Dim1(b, axis)..Dim2(b, axis)

\* the two boxes share no cell of the reduced cube
Disjoint(a, b) ==
    \/ \E axis \in Axes : Slices(a, axis) \cap Slices(b, axis) = {}
    \/ \E axis \in Axes : Slices(a, axis) = {} \/ Slices(b, axis) = {}

\* the children's ranges are the parent's, but for one axis on which they
\* split the parent's range in two
Covers(parent, low, high) ==
    \E axis \in Axes :
        /\ \A other \in Axes \ {axis} :
              /\ Slices(low, other) = Slices(parent, other)
              /\ Slices(high, other) = Slices(parent, other)
        /\ Slices(low, axis) \cup Slices(high, axis) = Slices(parent, axis)
        /\ Slices(low, axis) \cap Slices(high, axis) = {}

\* the last pass of iter_ cut its box in two
HasSplit == vbox # None /\ vbox1 # None /\ vbox2 # None

\* C1: the palette of a finished quantize holds at least 1 and at most
\* max_color entries.
C1_PaletteSizeWithinMaxColor ==
    pc = "done" => Len(cmap.contents) >= 1 /\ Len(cmap.contents) <= max_color

\* C2: after a finished quantize every pixel of the input is contained in
\* exactly one retained region and no two retained regions share a cell; every
\* split yields two regions whose ranges together are exactly the parent's.
C2_RetainedRegionsPartition ==
    /\ pc = "done" =>
          /\ \A n \in 1..Len(pixels) :
                Cardinality({i \in 1..Len(Retained) :
                                VBoxContains(Retained[i], pixels[n])}) = 1
          /\ \A i, j \in 1..Len(Retained) :
                i # j => Disjoint(Retained[i], Retained[j])
    /\ HasSplit => Covers(vbox[1], vbox1[1], vbox2[1])

\* C2 witness: a finished quantize whose input pixels lie in two different
\* retained regions.
C2_Witness ==
    /\ pc = "done"
    /\ \E m, n \in 1..Len(pixels), i, j \in 1..Len(Retained) :
          /\ i # j
          /\ VBoxContains(Retained[i], pixels[m])
          /\ VBoxContains(Retained[j], pixels[n])

\* C3: every channel of every colour of the returned palette is in 0..255.
C3_ChannelsInByteRange ==
    pc = "done" =>
        \A i \in 1..Len(cmap.contents), c \in 1..3 :
            cmap.contents[i].color[c] \in 0..255

\* the keys count * volume of the retained regions never increase along s
Descending(h, boxes) ==
    \A i \in 1..(Len(boxes) - 1) :
        VBoxCount(h, boxes[i]) * VBoxVolume(boxes[i])
            >= VBoxCount(h, boxes[i + 1]) * VBoxVolume(boxes[i + 1])

\* C4: the palette is in descending order of count * volume, and palette and
\* palette_distribution read after any lookups are the sequences that were
\* returned by quantize.
C4_PaletteOrderedAndImmutable ==
    pc = "done" =>
        /\ Descending(histo, Retained)
        /\ CMapPalette(cmap) = returned[1].palette
        /\ CMapPaletteDistribution(histo, cmap) = returned[1].distribution

\* the centroid of the histogram bucket idx
BucketCentre(idx) ==
    << (2 ^ RSHIFT) * IndexR(idx) + 2 ^ (RSHIFT - 1),
       (2 ^ RSHIFT) * IndexG(idx) + 2 ^ (RSHIFT - 1),
       (2 ^ RSHIFT) * IndexB(idx) + 2 ^ (RSHIFT - 1) >>

\* C5: an input whose pixels all fall into one histogram bucket yields a
\* palette of exactly one entry, the centroid of the bucket, with the
\* distribution [1.0].
C5_SingleBucketSingleEntry ==
    (pc = "done" /\ Cardinality(DOMAIN histo) = 1) =>
        /\ Len(returned[1].palette) = 1
        /\ \A idx \in DOMAIN histo : returned[1].palette[1] = BucketCentre(idx)
        /\ Len(returned[1].distribution) = 1
        /\ returned[1].distribution[1][2][1] = returned[1].distribution[1][2][2]

\* the second iter_ is over, every one of its passes cut a region in two and
\* it did not run out of iterations
Phase2AllSplit ==
    /\ pc \in {"drain", "done"}
    /\ n_iter < MAX_ITERATION
    /\ n_color = n_iter + 2

\* the number of regions in pq2 when the second iter_ started
Phase2Start == max_color - target_num \div FRACT_DEN

\* the number of regions at the end of the second iter_
Phase2End == IF pc = "drain" THEN Len(pq2.contents) ELSE Len(cmap.contents)

\* C6: when every pass of the second phase cuts its region in two and the
\* iteration cap is not hit, the phase adds max_color - k regions to the k it
\* started with, so the palette has exactly max_color entries.
C6_Phase2AddsUpToMaxColor ==
    Phase2AllSplit =>
        /\ Phase2End - Phase2Start = max_color - Phase2Start
        /\ Phase2End = max_color

\* the numerators of the fractions of a distribution, added up
RECURSIVE NumeratorsOf(_)
NumeratorsOf(dist) ==
    IF dist = <<>> THEN 0 ELSE Head(dist)[2][1] + NumeratorsOf(Tail(dist))

\* C7: in both phases and in the colour map the counts of the regions held
\* add up to the number of input pixels, and the fractions of the returned
\* distribution add up to 1.
C7_CountsAddUpToInput ==
    /\ pc \in {"phase1", "transfer"} => CountsOf(histo, pq.contents) = Len(pixels)
    /\ pc \in {"phase2", "drain"} => CountsOf(histo, pq2.contents) = Len(pixels)
    /\ pc = "done" =>
          /\ CountsOf(histo, Retained) = Len(pixels)
          /\ \A n \in 1..Len(returned[1].distribution) :
                returned[1].distribution[n][2][2] = Len(pixels)
          /\ NumeratorsOf(returned[1].distribution) = Len(pixels)

\* C7 witness: a finished quantize that cut a region into two regions that
\* both hold pixels.
C7_Witness ==
    /\ pc = "done"
    /\ HasSplit
    /\ VBoxCount(histo, vbox1[1]) > 0
    /\ VBoxCount(histo, vbox2[1]) > 0
    /\ Len(Retained) >= 3

WellFormed(b) ==
    /\ b.r1 <= b.r2 /\ b.g1 <= b.g2 /\ b.b1 <= b.b2
    /\ \A v \in {b.r1, b.r2, b.g1, b.g2, b.b1, b.b2} : v \in 0..(2 ^ SIGBITS - 1)

\* C8: every region of a run (in either queue, in the colour map, or just
\* returned by median_cut_apply) has r1<=r2, g1<=g2, b1<=b2 and all bounds in
\* 0..2^SIGBITS-1.
C8_RegionsWellFormed ==
    /\ \A n \in 1..Len(pq.contents) : WellFormed(pq.contents[n])
    /\ \A n \in 1..Len(pq2.contents) : WellFormed(pq2.contents[n])
    /\ \A n \in 1..Len(Retained) : WellFormed(Retained[n])
    /\ vbox1 # None => WellFormed(vbox1[1])
    /\ vbox2 # None => WellFormed(vbox2[1])

\* C9: a region with count >= 2 is cut into two regions with count >= 1.
C9_BothChildrenPopulated ==
    (HasSplit /\ VBoxCount(histo, vbox[1]) >= 2) =>
        /\ VBoxCount(histo, vbox1[1]) >= 1
        /\ VBoxCount(histo, vbox2[1]) >= 1

\* C10: no region popped by iter_ has count 0 (the put-back branch is not
\* taken), median_cut_apply never returns (None, None), and "vbox1 not
\* defined" is never raised.
C10_NoEmptyRegionPopped ==
    /\ vbox # None => VBoxCount(histo, vbox[1]) > 0 /\ vbox1 # None
    /\ error # "vbox1 not defined; shouldn't happen!"

\* C10 witness: a pass of the second phase popped a region while the queue
\* held a region with count 0 and a larger volume than the popped one.
C10_Witness ==
    /\ pc \in {"phase2", "drain"}
    /\ vbox # None
    /\ \E n \in 1..Len(pq2.contents) :
          /\ VBoxCount(histo, pq2.contents[n]) = 0
          /\ VBoxVolume(pq2.contents[n]) > VBoxVolume(vbox[1])

====
